---------------------------- MODULE Spec2Model ----------------------------
(***************************************************************************)
(* Model of pr3/assets/js/script.js: the text-reveal animator              *)
(* (animateTextScramble and its self-rescheduling step callback), the      *)
(* platform's animation-frame callback list, and the language switch       *)
(* (setLanguage / loadTranslations / applyTranslationsToDom) that drives   *)
(* the animator.                                                           *)
(*                                                                         *)
(* Strings are sequences of characters (Array.from), markup strings are    *)
(* sequences of markup characters, and an element's content is a sequence  *)
(* of DOM nodes.  Writing innerHTML parses the markup; reading textContent *)
(* concatenates the nodes' text.                                           *)
(*                                                                         *)
(* Time: a callback closure keeps "elapsed" = now - start instead of the   *)
(* absolute start, so the clock needs no bound.  The clock is monotone:    *)
(* a frame's timestamp is never earlier than a performance.now() read      *)
(* before the frame (HTML "update the rendering").                         *)
(***************************************************************************)
EXTENDS Integers, Sequences, FiniteSets, Bags, TLC

VARIABLES
    content,            \* el -> the element's child nodes
    textAnimationRafs,  \* el -> pending handle, 0 = no entry (WeakMap)
    rafCallbacks,       \* the platform's list of animation frame callbacks
    frameReady,         \* time has advanced since the last frame
    prefersReducedMotion,
    appLang,            \* appState.lang
    appTranslations,    \* appState.translations: a language's data, or "null"
    storedLang,         \* localStorage["lang"]
    i18nCache,          \* I18N_CACHE: the languages cached
    loads,              \* the setLanguage calls suspended in a fetch (a bag)
    booted,             \* initI18n has called setLanguage
    last,               \* history: el -> the last operation on the element
    modal               \* the project modal: its classes, attributes, timers

vars == <<content, textAnimationRafs, rafCallbacks, frameReady,
          prefersReducedMotion, appLang, appTranslations, storedLang,
          i18nCache, loads, booted, last, modal>>

-----------------------------------------------------------------------------
(* Characters and strings *)

NBSP == "nbsp"          \* U+00A0, one character


Min(a, b) == IF a < b THEN a ELSE b
Max(a, b) == IF a > b THEN a ELSE b

\* A missing element (animateTextScramble's !el)
NullEl == "null"

\* The strings handed to the animator when it is called on its own.
Texts ==
    { <<>>,
      <<"a">>,
      <<"b", " ", "c">>,
      <<"<", "d">>,
      <<"e", NBSP>> }


\* String.prototype.trim() of a one-character (or empty) string is empty
IsBlankChar(c) == c \in {"", " ", NBSP}

\* escapeHtml of one character: the markup characters that stand for it
EscapeHtmlIdentity(c) == IF c = "" THEN <<>> ELSE <<c>>
escapeHtml(c) ==
    CASE c = ""   -> <<>>
      [] c = "&"  -> <<"&", "a", "m", "p", ";">>
      [] c = "<"  -> <<"&", "l", "t", ";">>
      [] c = ">"  -> <<"&", "g", "t", ";">>
      [] c = "\"" -> <<"&", "q", "u", "o", "t", ";">>
      [] c = "'"  -> <<"&", "#", "0", "3", "9", ";">>
      [] OTHER    -> <<c>>

\* `<span class="i18n-char-highlight">` and `</span>` as markup characters
SpanOpen == <<"<", "span class=i18n-char-highlight", ">">>
SpanClose == <<"<", "/span", ">">>

RECURSIVE Join(_)
Join(parts) == IF parts = <<>> THEN <<>> ELSE Head(parts) \o Join(Tail(parts))

\* .replace(/(?: )+$/u, ""): drop the trailing run of non-breaking spaces
RECURSIVE StripTrailingNbsp(_)
StripTrailingNbsp(s) ==
    IF s # <<>> /\ s[Len(s)] = NBSP
    THEN StripTrailingNbsp(SubSeq(s, 1, Len(s) - 1))
    ELSE s

-----------------------------------------------------------------------------
(* DOM content: nodes, textContent, childElementCount, innerHTML *)

TextNode(c) == [tag |-> "#text", text |-> <<c>>]
ElemNode(tag, t) == [tag |-> tag, text |-> t]

\* el.textContent = t
SetTextContent(t) == [i \in 1..Len(t) |-> TextNode(t[i])]

\* el.textContent
RECURSIVE TextContent(_)
TextContent(nodes) ==
    IF nodes = <<>> THEN <<>>
    ELSE Head(nodes).text \o TextContent(Tail(nodes))

\* el.childElementCount
ChildElementCount(nodes) ==
    Cardinality({i \in 1..Len(nodes) : nodes[i].tag # "#text"})

HasPrefix(s, p) == Len(s) >= Len(p) /\ SubSeq(s, 1, Len(p)) = p
Drop(s, n) == SubSeq(s, n + 1, Len(s))

\* position of the first occurrence of p in s, Len(s) + 1 when there is none
RECURSIVE IndexOf(_, _)
IndexOf(s, p) ==
    IF s = <<>> THEN 1
    ELSE IF HasPrefix(s, p) THEN 1
    ELSE 1 + IndexOf(Tail(s), p)

Entities ==
    { <<"&", <<"&", "a", "m", "p", ";">> >>,
      <<"<", <<"&", "l", "t", ";">> >>,
      <<">", <<"&", "g", "t", ";">> >>,
      <<"\"", <<"&", "q", "u", "o", "t", ";">> >>,
      <<"'", <<"&", "#", "0", "3", "9", ";">> >> }

\* character data of markup: character references decoded, tags dropped
RECURSIVE DecodeText(_)
DecodeText(s) ==
    IF s = <<>> THEN <<>>
    ELSE IF \E en \in Entities : HasPrefix(s, en[2])
    THEN LET en == CHOOSE x \in Entities : HasPrefix(s, x[2])
         IN  <<en[1]>> \o DecodeText(Drop(s, Len(en[2])))
    ELSE IF s[1] = "<"
    THEN DecodeText(Drop(s, Min(IndexOf(s, <<">">>), Len(s))))
    ELSE <<s[1]>> \o DecodeText(Tail(s))

\* el.innerHTML = s: the HTML fragment parser on the markup the animator writes
RECURSIVE ParseHtml(_)
ParseHtml(s) ==
    IF s = <<>> THEN <<>>
    ELSE IF HasPrefix(s, SpanOpen)
    THEN LET rest == Drop(s, Len(SpanOpen))
             k == IndexOf(rest, SpanClose)
         IN  <<ElemNode("span", DecodeText(SubSeq(rest, 1, k - 1)))>>
             \o ParseHtml(Drop(rest, k - 1 + Len(SpanClose)))
    ELSE IF \E en \in Entities : HasPrefix(s, en[2])
    THEN LET en == CHOOSE x \in Entities : HasPrefix(s, x[2])
         IN  <<TextNode(en[1])>> \o ParseHtml(Drop(s, Len(en[2])))
    ELSE IF s[1] = "<"
    THEN \* an unknown or stray tag: consumed up to its ">"
         ParseHtml(Drop(s, Min(IndexOf(s, <<">">>), Len(s))))
    ELSE <<TextNode(s[1])>> \o ParseHtml(Tail(s))

-----------------------------------------------------------------------------
(* The animation frame callback list and the animator's working state *)

I18N_TEXT_SWAP_MS == 1000

\* Elapsed times at or beyond this one are kept as this one: the step callback
\* reads the elapsed time only through Math.min(elapsed / I18N_TEXT_SWAP_MS, 1).
MaxElapsed == 1500

\* The time that passes between two events (a call, a frame): quarter steps
\* for the animator on its own, half steps for the whole page
FrameDeltas == {250, 500}
PageFrameDeltas == {500}

\* The state the animator reads and writes, passed through its calls:
\* content and rafs (textAnimationRafs) per element, cbs the callbacks
\* requested for the next frame, running the callbacks of the frame being
\* run that have not run yet, last the history.
Handles(st) ==
    {st.cbs[i].id : i \in 1..Len(st.cbs)}
        \cup {st.running[i].id : i \in 1..Len(st.running)}
        \cup {st.rafs[e] : e \in DOMAIN st.rafs}

\* requestAnimationFrame's return value: a handle no pending callback has and
\* no table entry remembers (the platform never reuses a handle; a handle
\* nobody holds any more is indistinguishable from a new one)
FreshHandle(st) ==
    CHOOSE h \in 1..(Cardinality(Handles(st)) + 1) :
        /\ h \notin Handles(st)
        /\ \A g \in 1..(h - 1) : g \in Handles(st)

\* cancelAnimationFrame(id)
CancelAnimationFrame(cbs, id) == SelectSeq(cbs, LAMBDA cb : cb.id # id)

PendingFor(cbs, el) == SelectSeq(cbs, LAMBDA cb : cb.el = el)

NoOp ==
    [op |-> "none", text |-> <<>>, prevText |-> <<>>, prevKids |-> 0,
     hadRaf |-> FALSE, unticked |-> FALSE, outcome |-> "none",
     from |-> <<>>, elapsed |-> 0, reveal |-> 0, prevReveal |-> -1,
     afterUnticked |-> FALSE, goneFrom |-> <<>>,
     animate |-> FALSE, reduced |-> FALSE]

-----------------------------------------------------------------------------
(* animateTextScramble *)

\* const previousRaf = textAnimationRafs.get(el);
\* if (previousRaf) cancelAnimationFrame(previousRaf);
CancelPreviousSkipped(st, el) == st.cbs
CancelPrevious(st, el) ==
    LET previousRaf == st.rafs[el]
    IN  IF previousRaf # 0 THEN CancelAnimationFrame(st.cbs, previousRaf)
        ELSE st.cbs

\* if (currentText === nextText) return;
SameTextNever(currentText, nextText) == FALSE
SameText(currentText, nextText) == currentText = nextText

\* if (el.childElementCount > 0): a node with nested elements
IsComplexNodeNever(nodes) == FALSE
IsComplexNode(nodes) == ChildElementCount(nodes) > 0

\* fromChars.slice(0, targetLen).concat(Array(Math.max(0, targetLen - fromChars.length)).fill(""))
FromPaddedBlank(fromChars, targetLen) == [i \in 1..targetLen |-> ""]
FromPadded(fromChars, targetLen) ==
    SubSeq(fromChars, 1, Min(Len(fromChars), targetLen))
        \o [i \in 1..Max(0, targetLen - Len(fromChars)) |-> ""]

\* Math.min((now - start) / I18N_TEXT_SWAP_MS, 1), in units of 1/I18N_TEXT_SWAP_MS
ProgressUnclamped(elapsed) == elapsed
Progress(elapsed) == Min(elapsed, I18N_TEXT_SWAP_MS)

\* Math.floor(progress * targetLen)
RevealCount(progress, targetLen) == (progress * targetLen) \div I18N_TEXT_SWAP_MS

\* the loop that builds out, joined; positions are 0-based in the source and
\* 1-based here (p = i + 1)
RenderOut(toPadded, fromPadded, revealCount) ==
    LET targetLen == Len(toPadded)
        highlightIndex == IF revealCount < targetLen THEN revealCount ELSE -1
        cell(p) ==
            IF p - 1 < revealCount THEN escapeHtml(toPadded[p])
            ELSE LET sourceChar == fromPadded[p]
                     charToShow == IF sourceChar = " " THEN NBSP ELSE sourceChar
                 IN  IF p - 1 = highlightIndex /\ ~IsBlankChar(sourceChar)
                     THEN SpanOpen \o escapeHtml(charToShow) \o SpanClose
                     ELSE escapeHtml(charToShow)
    IN  Join([p \in 1..targetLen |-> cell(p)])

\* if (progress >= 1) el.textContent = nextText; else el.innerHTML = out...
CommitContentAlwaysMarkup(progress, nextText, out) ==
    ParseHtml(StripTrailingNbsp(out))
CommitContent(progress, nextText, out) ==
    IF progress >= I18N_TEXT_SWAP_MS THEN SetTextContent(nextText)
    ELSE ParseHtml(StripTrailingNbsp(out))

\* if (progress < 1) re-arm, else delete the table entry
ShouldRearmAlways(progress) == TRUE
ShouldRearm(progress) == progress < I18N_TEXT_SWAP_MS

\* One run of the step callback cb, a closure over el, nextText, fromChars,
\* fromPadded and start (kept as elapsed = now - start).  Its fields reveal
\* (the reveal count of its last run, -1 before the first) and afterUnticked
\* (the session replaced one that had not run yet) are history.
Step(st, cb) ==
    LET el == cb.el
        targetLen == Len(cb.nextText)
        progress == Progress(cb.elapsed)
        revealCount == RevealCount(progress, targetLen)
        out == RenderOut(cb.nextText, cb.fromPadded, revealCount)
        tick == [NoOp EXCEPT !.op = "tick", !.text = cb.nextText,
                             !.from = cb.fromChars, !.elapsed = progress,
                             !.reveal = revealCount, !.prevReveal = cb.reveal,
                             !.afterUnticked = cb.afterUnticked]
        written == [st EXCEPT
                      !.content[el] = CommitContent(progress, cb.nextText, out),
                      !.last[el] = tick]
    IN  IF ShouldRearm(progress)
        THEN LET rafId == FreshHandle(written)
             IN  [written EXCEPT
                    !.cbs = Append(@, [cb EXCEPT !.id = rafId,
                                                 !.reveal = revealCount]),
                    !.rafs[el] = rafId]
        ELSE [written EXCEPT !.rafs[el] = 0]

AnimateTextScramble(st, el, nextText) ==
    IF el = NullEl THEN st
    ELSE
    LET cbs1 == CancelPrevious(st, el)
        gone == PendingFor(st.cbs, el)
        hadRaf == gone # <<>>
        unticked == hadRaf /\ \A i \in 1..Len(gone) : gone[i].reveal = -1
        currentText == TextContent(st.content[el])
        call == [NoOp EXCEPT !.op = "call", !.text = nextText,
                             !.prevText = currentText,
                             !.prevKids = ChildElementCount(st.content[el]),
                             !.hadRaf = hadRaf, !.unticked = unticked,
                             !.goneFrom = IF unticked THEN gone[1].fromChars
                                          ELSE <<>>]
        st1 == [st EXCEPT !.cbs = cbs1]
    IN  IF SameText(currentText, nextText)
        THEN [st1 EXCEPT !.last[el] = [call EXCEPT !.outcome = "same"]]
        ELSE IF IsComplexNode(st.content[el])
        THEN [st1 EXCEPT !.content[el] = SetTextContent(nextText),
                         !.last[el] = [call EXCEPT !.outcome = "plain"]]
        ELSE LET targetLen == Len(nextText)
                 rafId == FreshHandle(st1)
                 closure == [id |-> rafId, el |-> el, nextText |-> nextText,
                             fromChars |-> currentText,
                             fromPadded |-> FromPadded(currentText, targetLen),
                             elapsed |-> 0, reveal |-> -1,
                             afterUnticked |-> unticked]
             IN  [st1 EXCEPT !.cbs = Append(@, closure),
                             !.rafs[el] = rafId,
                             !.last[el] = [call EXCEPT !.outcome = "session"]]

-----------------------------------------------------------------------------
(* Frames *)

\* the callbacks of one frame, in the order they were requested
RECURSIVE RunCallbacks(_)
RunCallbacks(st) ==
    IF st.running = <<>> THEN st
    ELSE RunCallbacks(Step([st EXCEPT !.running = Tail(@)], Head(st.running)))

Cur ==
    [content |-> content, rafs |-> textAnimationRafs, cbs |-> rafCallbacks,
     running |-> <<>>, last |-> last]

Commit(st) ==
    /\ content' = st.content
    /\ textAnimationRafs' = st.rafs
    /\ rafCallbacks' = st.cbs
    /\ last' = st.last

AppVars == <<prefersReducedMotion, appLang, appTranslations, storedLang,
             i18nCache, loads, booted, modal>>

\* Time passes: every pending closure's now - start grows.
Advance(d) ==
    /\ rafCallbacks' =
         [i \in 1..Len(rafCallbacks) |->
            [rafCallbacks[i] EXCEPT !.elapsed = Min(@ + d, MaxElapsed)]]
    /\ frameReady' = TRUE
    /\ UNCHANGED <<content, textAnimationRafs, last, AppVars>>

\* The platform runs the animation frame callbacks: the list is taken and
\* emptied, then each callback runs; what they request runs in a later frame.
Frame ==
    /\ frameReady
    /\ rafCallbacks # <<>>
    /\ Commit(RunCallbacks([Cur EXCEPT !.cbs = <<>>, !.running = rafCallbacks]))
    /\ frameReady' = FALSE
    /\ UNCHANGED AppVars

\* A direct call of the animator
AnimateCall(el, nextText) ==
    /\ Commit(AnimateTextScramble(Cur, el, nextText))
    /\ UNCHANGED <<frameReady, AppVars>>

-----------------------------------------------------------------------------
(* The project modal's state *)

\* no project, no element (null)
NoProject == "null"

\* The modal before it is first opened: no class, hidden, and the module's
\* variables lastFocusedElement, modalCloseTimer (0 = null), modalOpenFrame
\* (0 = null), activeProjectId as declared.  timers and frames are the
\* platform's pending timeouts and animation frame requests of the modal,
\* focused is document.activeElement, filled the project whose data
\* fillProjectModal has put into the modal.  clearedTimer is history: the
\* last openProjectModal found a close timer pending.
ModalClosed ==
    [open |-> FALSE, visible |-> FALSE, closing |-> FALSE,
     ariaHidden |-> "true", noScroll |-> FALSE,
     activeProjectId |-> NoProject,
     lastFocusedElement |-> NullEl,
     modalCloseTimer |-> 0, modalOpenFrame |-> 0,
     timers |-> {}, frames |-> {},
     focused |-> "body", filled |-> NoProject, clearedTimer |-> FALSE]

-----------------------------------------------------------------------------
(* The animator on its own: a document with one element, any content, any  *)
(* call                                                                    *)

AnimElems == {"e1"}

NestedContent == <<ElemNode("strong", <<"a">>), TextNode("b")>>

InitContents == {SetTextContent(t) : t \in Texts} \cup {NestedContent}

InitAnim ==
    /\ content \in [AnimElems -> InitContents]
    /\ textAnimationRafs = [e \in AnimElems |-> 0]
    /\ rafCallbacks = <<>>
    /\ frameReady = FALSE
    /\ prefersReducedMotion = FALSE
    /\ appLang = "uk"
    /\ appTranslations = "null"
    /\ storedLang = "null"
    /\ i18nCache = {}
    /\ loads = EmptyBag
    /\ booted = TRUE
    /\ last = [e \in AnimElems |-> NoOp]
    /\ modal = ModalClosed

NextAnim ==
    \/ \E el \in AnimElems \cup {NullEl}, t \in Texts : AnimateCall(el, t)
    \/ \E d \in FrameDeltas : Advance(d)
    \/ Frame

SpecAnim == InitAnim /\ [][NextAnim]_vars

\* Frame can take a step, and every step of it changes frameReady:
\* ENABLED <<Frame>>_vars
FrameEnabled == frameReady /\ rafCallbacks # <<>>

\* The platform's clock keeps advancing and the platform keeps delivering
\* frames: WF_vars(Advance) and WF_vars(Frame), the latter written out with
\* FrameEnabled for ENABLED <<Frame>>_vars.
FairSpecAnim ==
    /\ SpecAnim
    /\ WF_vars(\E d \in FrameDeltas : Advance(d))
    /\ ([]<>(~FrameEnabled) \/ []<><<Frame>>_vars)

-----------------------------------------------------------------------------
(* The language switch: setLanguage, loadTranslations, applyTranslationsToDom *)

SUPPORTED_LANGS == {"uk", "en"}

\* the data-lang values of the page's language buttons
ButtonLangs == {"uk", "en", "de"}

\* the [data-i18n] elements of the page, in document order
I18nElems == <<"e1", "e2">>

\* the translation files: the string of each element's data-i18n key
TranslationData(lang) ==
    IF lang = "uk" THEN [e1 |-> <<"a", "b">>, e2 |-> <<"c">>]
    ELSE [e1 |-> <<"d">>, e2 |-> <<"<">>]

\* the most setLanguage calls suspended in a fetch at one time
MaxLoads == 1

\* t(el.dataset.i18n): getByPath(appState.translations, path) ?? ""
t(translations, el) ==
    IF translations = "null" THEN <<>> ELSE TranslationData(translations)[el]

\* options.animate && !prefersReducedMotion
ShouldAnimateIgnoringPreference(animate, reducedMotion) == animate
ShouldAnimate(animate, reducedMotion) == animate /\ ~reducedMotion

\* the forEach over [data-i18n] of applyTranslationsToDom, from element k on
RECURSIVE ApplyFrom(_, _, _, _)
ApplyFrom(st, k, call, translations) ==
    IF k > Len(I18nElems) THEN st
    ELSE LET el == I18nElems[k]
             value == t(translations, el)
             done ==
               IF call.shouldAnimate
               THEN LET a == AnimateTextScramble(st, el, value)
                    IN  [a EXCEPT !.last[el].animate = call.animate,
                                  !.last[el].reduced = call.reduced]
               ELSE [st EXCEPT
                       !.content[el] = SetTextContent(value),
                       !.last[el] = [NoOp EXCEPT !.op = "set", !.text = value,
                                                 !.animate = call.animate,
                                                 !.reduced = call.reduced]]
         IN  ApplyFrom(done, k + 1, call, translations)

applyTranslationsToDom(call, translations) ==
    Commit(ApplyFrom(Cur, 1, call, translations))

DomUnchanged == UNCHANGED <<content, textAnimationRafs, rafCallbacks, last>>

\* setLanguage(lang, {animate}) up to its first suspension: on a cache hit
\* the await resumes within the same task and the call runs to its end, on a
\* miss the call is suspended in loadTranslations' fetch.
setLanguage(lang, animate) ==
    LET call == [lang |-> lang, stage |-> "load", animate |-> animate,
                 reduced |-> prefersReducedMotion,
                 shouldAnimate |-> ShouldAnimate(animate, prefersReducedMotion)]
    IN  /\ appLang' = lang
        /\ storedLang' = lang
        /\ IF lang \in i18nCache
           THEN /\ appTranslations' = lang
                /\ applyTranslationsToDom(call, lang)
                /\ UNCHANGED loads
           ELSE /\ BagCardinality(loads) < MaxLoads
                /\ loads' = loads (+) SetToBag({call})
                /\ DomUnchanged
                /\ UNCHANGED appTranslations
        /\ UNCHANGED <<i18nCache, prefersReducedMotion, frameReady, modal>>

\* initI18n: the stored language if supported, else "uk"; no animation
InitI18n ==
    /\ ~booted
    /\ booted' = TRUE
    /\ setLanguage(IF storedLang \in SUPPORTED_LANGS THEN storedLang ELSE "uk",
                   FALSE)

\* the click handler bindLanguageSwitcher puts on a [data-lang] button
ClickLanguage(lang) ==
    /\ booted
    /\ IF lang \notin SUPPORTED_LANGS \/ lang = appLang
       THEN UNCHANGED vars
       ELSE setLanguage(lang, TRUE) /\ UNCHANGED booted

\* catch: if (lang !== "uk")
NeedsFallbackNever(lang) == FALSE
NeedsFallback(lang) == lang # "uk"

\* The fetch of a suspended call settles and the call runs on: to its end, or
\* to the fetch of the fallback language.  SettleState is what the call does
\* to the language state, SettleDom what it does to the page.
SettleState(call, ok) ==
    LET rest == loads (-) SetToBag({call})
    IN  IF ok
        THEN \* I18N_CACHE.set(lang, data); appState.translations = data
             /\ i18nCache' = i18nCache \cup {call.lang}
             /\ appTranslations' = call.lang
             /\ loads' = rest
             /\ UNCHANGED <<appLang, storedLang>>
        ELSE IF call.stage = "fallback" \/ ~NeedsFallback(call.lang)
        THEN \* the fallback's own failure leaves setLanguage by the throw;
             \* the failure of "uk" has nothing to fall back to
             /\ loads' = rest
             /\ UNCHANGED <<appLang, storedLang, appTranslations, i18nCache>>
        ELSE \* catch: back to the base language
             /\ appLang' = "uk"
             /\ storedLang' = "uk"
             /\ UNCHANGED i18nCache
             /\ IF "uk" \in i18nCache
                THEN /\ appTranslations' = "uk"
                     /\ loads' = rest
                ELSE /\ loads' = rest (+) SetToBag({[call EXCEPT
                                           !.lang = "uk",
                                           !.stage = "fallback"]})
                     /\ UNCHANGED appTranslations

SettleDom(call, ok) ==
    IF ok THEN applyTranslationsToDom(call, call.lang)
    ELSE IF call.stage = "fallback" THEN DomUnchanged
    ELSE IF ~NeedsFallback(call.lang)
    THEN applyTranslationsToDom(call, appTranslations)
    ELSE IF "uk" \in i18nCache THEN applyTranslationsToDom(call, "uk")
    ELSE DomUnchanged

FetchSettles(call, ok) ==
    /\ SettleState(call, ok)
    /\ SettleDom(call, ok)
    /\ UNCHANGED <<prefersReducedMotion, frameReady, booted, modal>>

\* the user switches the reduced-motion preference on
RequestReducedMotion ==
    /\ ~prefersReducedMotion
    /\ prefersReducedMotion' = TRUE
    /\ UNCHANGED <<content, textAnimationRafs, rafCallbacks, frameReady, appLang,
                   appTranslations, storedLang, i18nCache, loads, booted, last,
                   modal>>

PageElems == {I18nElems[k] : k \in 1..Len(I18nElems)}

\* the page as served: the base language's text, plain or (for the second
\* element) with a child element; the user's reduced-motion preference is
\* either value
Init ==
    /\ content \in
         { [e1 |-> SetTextContent(TranslationData("uk").e1), e2 |-> c] :
             c \in {SetTextContent(TranslationData("uk").e2), NestedContent} }
    /\ textAnimationRafs = [e \in PageElems |-> 0]
    /\ rafCallbacks = <<>>
    /\ frameReady = FALSE
    /\ prefersReducedMotion \in BOOLEAN
    /\ appLang = "uk"
    /\ appTranslations = "null"
    /\ storedLang \in {"null", "en", "de"}
    /\ i18nCache = {}
    /\ loads = EmptyBag
    /\ booted = FALSE
    /\ last = [e \in PageElems |-> NoOp]
    /\ modal = ModalClosed

Next ==
    \/ InitI18n
    \/ \E lang \in ButtonLangs : ClickLanguage(lang)
    \/ \E call \in BagToSet(loads), ok \in BOOLEAN : FetchSettles(call, ok)
    \/ RequestReducedMotion
    \/ \E d \in PageFrameDeltas : Advance(d)
    \/ Frame

Spec == Init /\ [][Next]_vars

\* The page when every fetch of a translation file succeeds
NextLoadsSucceed ==
    \/ InitI18n
    \/ \E lang \in ButtonLangs : ClickLanguage(lang)
    \/ \E call \in BagToSet(loads) : FetchSettles(call, TRUE)
    \/ RequestReducedMotion
    \/ \E d \in PageFrameDeltas : Advance(d)
    \/ Frame

SpecLoadsSucceed == Init /\ [][NextLoadsSucceed]_vars

-----------------------------------------------------------------------------
(* The project modal: openProjectModal, closeModal and their callbacks *)

\* the ids getProjectsData() holds, and the ids a card can ask for
Projects == {"events", "cv", "todo"}
RequestedIds == Projects \cup {"gone"}

\* the elements the user can move the focus to
UserFocus == {"body", "card"}

\* setTimeout's and requestAnimationFrame's return values: an id nothing
\* pending has and no variable remembers
FreshTimer(m) ==
    CHOOSE h \in 1..(Cardinality(m.timers) + 2) :
        /\ h \notin m.timers \cup {m.modalCloseTimer}
        /\ \A g \in 1..(h - 1) : g \in m.timers \cup {m.modalCloseTimer}
FreshFrame(m) ==
    CHOOSE h \in 1..(Cardinality(m.frames) + 2) :
        /\ h \notin m.frames \cup {m.modalOpenFrame}
        /\ \A g \in 1..(h - 1) : g \in m.frames \cup {m.modalOpenFrame}

\* if (modalCloseTimer) { clearTimeout(modalCloseTimer); modalCloseTimer = null; }
ClearCloseTimerSkipped(m) == m
ClearCloseTimer(m) ==
    IF m.modalCloseTimer # 0
    THEN [m EXCEPT !.timers = @ \ {m.modalCloseTimer}, !.modalCloseTimer = 0]
    ELSE m

\* if (modalOpenFrame) { cancelAnimationFrame(modalOpenFrame); modalOpenFrame = null; }
CancelOpenFrame(m) ==
    IF m.modalOpenFrame # 0
    THEN [m EXCEPT !.frames = @ \ {m.modalOpenFrame}, !.modalOpenFrame = 0]
    ELSE m

openProjectModal(m, projectId) ==
    IF projectId \notin Projects THEN m
    ELSE
    LET m1 == [m EXCEPT !.activeProjectId = projectId,
                        !.lastFocusedElement = m.focused,
                        !.filled = projectId,
                        !.clearedTimer = m.modalCloseTimer \in m.timers]
        m2 == CancelOpenFrame(ClearCloseTimer(m1))
        m3 == [m2 EXCEPT !.closing = FALSE, !.visible = FALSE, !.open = TRUE,
                         !.ariaHidden = "false", !.noScroll = TRUE]
        h == FreshFrame(m3)
    IN  [m3 EXCEPT !.modalOpenFrame = h, !.frames = @ \cup {h},
                   !.focused = "closeBtn"]

closeModal(m) ==
    IF ~m.open THEN m
    ELSE
    LET m1 == CancelOpenFrame(m)
        m2 == [m1 EXCEPT !.visible = FALSE, !.open = FALSE, !.closing = TRUE]
        \* if (modalCloseTimer) clearTimeout(modalCloseTimer);
        m3 == IF m2.modalCloseTimer # 0
              THEN [m2 EXCEPT !.timers = @ \ {m2.modalCloseTimer}]
              ELSE m2
        id == FreshTimer(m3)
    IN  [m3 EXCEPT !.modalCloseTimer = id, !.timers = @ \cup {id}]

\* the callback closeModal hands to setTimeout
CloseTimerCallback(m) ==
    [m EXCEPT !.closing = FALSE, !.ariaHidden = "true", !.noScroll = FALSE,
              !.activeProjectId = NoProject,
              !.focused = IF m.lastFocusedElement # NullEl
                          THEN m.lastFocusedElement ELSE @,
              !.modalCloseTimer = 0]

\* the callback openProjectModal hands to requestAnimationFrame
OpenFrameCallback(m) == [m EXCEPT !.visible = TRUE, !.modalOpenFrame = 0]

PageVars == <<content, textAnimationRafs, rafCallbacks, frameReady,
              prefersReducedMotion, appLang, appTranslations, storedLang,
              i18nCache, loads, booted, last>>

\* a click on a project card's "open" button
OpenProjectModal(projectId) ==
    /\ modal' = openProjectModal(modal, projectId)
    /\ UNCHANGED PageVars

\* a click on an element of the modal with data-action="close"
CloseClick ==
    /\ modal' = closeModal(modal)
    /\ UNCHANGED PageVars

\* the keydown handler: Escape while the modal is open
EscapeKey ==
    /\ modal' = IF modal.open THEN closeModal(modal) ELSE modal
    /\ UNCHANGED PageVars

\* a pending timeout fires
CloseTimerFires ==
    /\ \E id \in modal.timers :
          modal' = CloseTimerCallback([modal EXCEPT !.timers = @ \ {id}])
    /\ UNCHANGED PageVars

\* a pending animation frame request of the modal runs
OpenFrameFires ==
    /\ \E h \in modal.frames :
          modal' = OpenFrameCallback([modal EXCEPT !.frames = @ \ {h}])
    /\ UNCHANGED PageVars

\* the user moves the focus
FocusMoves(el) ==
    /\ modal.focused # el
    /\ modal' = [modal EXCEPT !.focused = el]
    /\ UNCHANGED PageVars

NextModal ==
    \/ \E projectId \in RequestedIds : OpenProjectModal(projectId)
    \/ CloseClick
    \/ EscapeKey
    \/ CloseTimerFires
    \/ OpenFrameFires
    \/ \E el \in UserFocus : FocusMoves(el)

\* the page at rest, the modal not opened yet
InitModal ==
    /\ content = [e \in AnimElems |-> SetTextContent(<<"a">>)]
    /\ textAnimationRafs = [e \in AnimElems |-> 0]
    /\ rafCallbacks = <<>>
    /\ frameReady = FALSE
    /\ prefersReducedMotion = FALSE
    /\ appLang = "uk"
    /\ appTranslations = "null"
    /\ storedLang = "null"
    /\ i18nCache = {}
    /\ loads = EmptyBag
    /\ booted = TRUE
    /\ last = [e \in AnimElems |-> NoOp]
    /\ modal = ModalClosed

SpecModal == InitModal /\ [][NextModal]_vars

-----------------------------------------------------------------------------
(* Properties *)

Pending(e) == PendingFor(rafCallbacks, e)
HasPending(e) == Pending(e) # <<>>
IsPlainText(nodes, text) ==
    TextContent(nodes) = text /\ ChildElementCount(nodes) = 0
Ticked(e) == last[e].op = "tick"
TickedBelowOne(e) == Ticked(e) /\ last[e].elapsed < I18N_TEXT_SWAP_MS
TickedAtOne(e) == Ticked(e) /\ last[e].elapsed >= I18N_TEXT_SWAP_MS
Called(e) == last[e].op = "call"

\* a space of the source is shown as a non-breaking space
ShowChar(c) == IF c = " " THEN NBSP ELSE c

\* The text of a session from A to B with r characters revealed: r characters
\* of B, then the characters of A at the positions r+1 .. min(|A|, |B|),
\* without a trailing run of non-breaking spaces.
ExpectedText(A, B, r) ==
    StripTrailingNbsp(
        SubSeq(B, 1, r)
            \o [p \in 1..Max(0, Min(Len(A), Len(B)) - r) |-> ShowChar(A[r + p])])

\* A padded to B's length with non-breaking spaces, r characters of B first
PaddedText(A, B, r) ==
    [p \in 1..Len(B) |->
        IF p <= r THEN B[p]
        ELSE IF p <= Len(A) THEN ShowChar(A[p])
        ELSE NBSP]

\* C1: on the page, every element has at most one pending step callback, it
\* is the one the handle table names, and a call of animateTextScramble on an
\* element removes the callback that was pending for it before the call, so
\* that no tick of the earlier session runs after the call.
C1_Inv ==
    \A e \in PageElems :
        /\ Len(Pending(e)) <= 1
        /\ \A i \in 1..Len(Pending(e)) : Pending(e)[i].id = textAnimationRafs[e]
C1_Step ==
    \A e \in PageElems : \A i \in 1..Len(rafCallbacks) :
        (/\ rafCallbacks[i].el = e
         /\ last'[e] # last[e]
         /\ last'[e].op = "call")
        => ~\E j \in 1..Len(rafCallbacks') :
               /\ rafCallbacks'[j].el = e
               /\ rafCallbacks'[j].id = rafCallbacks[i].id
C1_OneSessionPerElement == [](C1_Inv) /\ [][C1_Step]_vars

\* a call has replaced a pending session of the element by a new one
C1_Witness ==
    \E e \in PageElems :
        /\ Called(e) /\ last[e].hadRaf /\ last[e].outcome = "session"
        /\ Len(Pending(e)) = 1

\* C2: the tick of a session from A to B whose fraction reaches 1 leaves the
\* element's content equal to B, as plain text without child elements, and
\* ends the session: nothing is pending for the element and its table entry
\* is gone.
C2_FinalTextExact ==
    \A e \in DOMAIN content :
        TickedAtOne(e) =>
            /\ last[e].from # last[e].text
            /\ IsPlainText(content[e], last[e].text)
            /\ Len(content[e]) = Len(last[e].text)
            /\ ~HasPending(e)
            /\ textAnimationRafs[e] = 0

\* a session towards a string of two characters or more, from a non-empty
\* string, has run its last tick
C2_Witness ==
    \E e \in DOMAIN content :
        /\ TickedAtOne(e)
        /\ Len(last[e].text) >= 2 /\ last[e].from # <<>>
        /\ IsPlainText(content[e], last[e].text)

\* the second call of the scenario of C3: it cancelled a session that had
\* not run a tick yet
C3_SecondCall(e) == Called(e) /\ last[e].unticked

\* the positions after the revealed prefix at which the element shows the
\* character the source string has there
ShownFromSource(e) ==
    {p \in (last[e].reveal + 1)..Len(TextContent(content[e])) :
        p <= Len(last[e].from) /\ TextContent(content[e])[p] = last[e].from[p]}

\* C3 as stated: after a session A -> B is replaced, before its first tick, by
\* a call with C (C # A), exactly one session is active, it targets C, and no
\* later tick renders a character of A.
C3_Original ==
    \A e \in DOMAIN content :
        /\ (C3_SecondCall(e) /\ last[e].text # last[e].prevText) =>
              /\ Len(Pending(e)) = 1
              /\ Pending(e)[1].nextText = last[e].text
        /\ (Ticked(e) /\ last[e].afterUnticked) => ShownFromSource(e) = {}

\* C3 amended: the element still shows A at the second call; with C # A exactly
\* one session is active, it targets C and starts from A, and its ticks below
\* fraction 1 show the revealed prefix of C followed by the remaining
\* characters of A; with C = A no session is active and the element keeps A.
C3_Amended ==
    \A e \in DOMAIN content :
        /\ C3_SecondCall(e) =>
              /\ last[e].prevKids = 0
              /\ last[e].goneFrom = last[e].prevText
              /\ IsPlainText(content[e], last[e].prevText)
        /\ (C3_SecondCall(e) /\ last[e].text # last[e].prevText) =>
              /\ Len(Pending(e)) = 1
              /\ Pending(e)[1].nextText = last[e].text
              /\ Pending(e)[1].fromChars = last[e].goneFrom
              /\ Pending(e)[1].reveal = -1
              /\ Pending(e)[1].id = textAnimationRafs[e]
        /\ (C3_SecondCall(e) /\ last[e].text = last[e].prevText) =>
              ~HasPending(e)
        /\ (TickedBelowOne(e) /\ last[e].afterUnticked) =>
              TextContent(content[e])
                  = ExpectedText(last[e].from, last[e].text, last[e].reveal)

\* a tick of the replacing session shows a revealed character of C and, after
\* it, a character of A
C3_Witness ==
    \E e \in DOMAIN content :
        /\ TickedBelowOne(e) /\ last[e].afterUnticked
        /\ last[e].reveal >= 1
        /\ ShownFromSource(e) # {}

\* C4: when the reduced-motion preference is set at a setLanguage call, the
\* step that applies its translations (also of a call with animate: true)
\* sets every translated element to the plain new string and neither
\* schedules an animation frame nor touches the handle table.
C4_Step ==
    (\E e \in PageElems : last'[e] # last[e] /\ last'[e].reduced) =>
        /\ \A e \in PageElems :
              /\ last'[e].op = "set" /\ last'[e].reduced
              /\ IsPlainText(content'[e], t(appTranslations', e))
        /\ rafCallbacks' = rafCallbacks
        /\ textAnimationRafs' = textAnimationRafs
C4_ReducedMotionPlainReplace == [][C4_Step]_vars

\* a language click (animate: true) under reduced motion has replaced the
\* texts by the English ones
C4_Witness ==
    /\ appTranslations = "en"
    /\ \A e \in PageElems :
          /\ last[e].op = "set" /\ last[e].reduced /\ last[e].animate
          /\ IsPlainText(content[e], TranslationData("en")[e])

\* C5: a call on an element that has child elements and whose text differs
\* from the new string leaves the element with the plain new string and with
\* no pending callback.
C5_NestedMarkupSetsPlain ==
    \A e \in DOMAIN content :
        (Called(e) /\ last[e].prevKids > 0 /\ last[e].text # last[e].prevText)
        => /\ IsPlainText(content[e], last[e].text)
           /\ ~HasPending(e)

\* a call reached an element in mid-animation (it holds the highlight span
\* and a callback was pending) with a different string
C5_Witness ==
    \E e \in DOMAIN content :
        /\ Called(e) /\ last[e].prevKids > 0 /\ last[e].hadRaf
        /\ last[e].text # last[e].prevText
        /\ IsPlainText(content[e], last[e].text)

\* C6: a call with the string the element already shows, made while nothing
\* is pending for the element, changes neither the content nor the callback
\* list nor the handle table.
C6_Step ==
    \A el \in AnimElems, tx \in Texts :
        (/\ AnimateCall(el, tx)
         /\ TextContent(content[el]) = tx
         /\ ~HasPending(el))
        => UNCHANGED <<content, rafCallbacks, textAnimationRafs>>
C6_IdenticalTextNoOp == [][C6_Step]_vars

\* such a call has been made
C6_Witness ==
    \E e \in DOMAIN content :
        /\ Called(e) /\ last[e].outcome = "same" /\ ~last[e].hadRaf
        /\ last[e].text # <<>>
        /\ TextContent(content[e]) = last[e].text
        /\ ~HasPending(e)

\* C7: the reveal count of a tick is at least the reveal count of the
\* session's previous tick, and lies in 0 .. target length.
C7_RevealMonotone ==
    \A e \in DOMAIN content :
        Ticked(e) =>
            /\ last[e].prevReveal <= last[e].reveal
            /\ last[e].reveal \in 0..Len(last[e].text)

\* a session's tick revealed more than its previous tick, which had revealed
\* something
C7_Witness ==
    \E e \in DOMAIN content :
        /\ Ticked(e)
        /\ last[e].prevReveal >= 1
        /\ last[e].prevReveal < last[e].reveal

\* C8 as stated: at a tick with fraction f < 1 the element shows floor(f * |B|)
\* characters of B and then A padded to |B|, blanks and padding as
\* non-breaking spaces.
C8_Original ==
    \A e \in DOMAIN content :
        TickedBelowOne(e) =>
            /\ last[e].reveal
                 = (last[e].elapsed * Len(last[e].text)) \div I18N_TEXT_SWAP_MS
            /\ TextContent(content[e])
                 = PaddedText(last[e].from, last[e].text, last[e].reveal)

\* C8 amended: the element shows floor(f * |B|) characters of B and then the
\* characters of A at the remaining positions up to min(|A|, |B|), spaces as
\* non-breaking spaces; positions beyond A's length show nothing, and a
\* trailing run of non-breaking spaces is removed.
C8_Amended ==
    \A e \in DOMAIN content :
        TickedBelowOne(e) =>
            /\ last[e].reveal
                 = (last[e].elapsed * Len(last[e].text)) \div I18N_TEXT_SWAP_MS
            /\ TextContent(content[e])
                 = ExpectedText(last[e].from, last[e].text, last[e].reveal)
            /\ ChildElementCount(content[e]) <= 1

\* a tick at half of the duration of a session towards a longer string that
\* holds a character to escape
C8_Witness ==
    \E e \in DOMAIN content :
        /\ TickedBelowOne(e)
        /\ last[e].reveal >= 1
        /\ Len(last[e].from) < Len(last[e].text)
        /\ "<" \in {last[e].text[p] : p \in 1..last[e].reveal}
        /\ Len(TextContent(content[e])) < Len(last[e].text)

\* C9: a tick below fraction 1 leaves exactly one callback of its session
\* pending, a tick at fraction 1 leaves none, the callbacks left by a call
\* that cancelled one have not run; and with frames delivered and time
\* advancing, a pending session runs a tick, and a session that ticked below
\* fraction 1 ticks at fraction 1 unless a call comes first.
C9_Rearmed ==
    \A e \in AnimElems :
        /\ TickedBelowOne(e) =>
              /\ Len(Pending(e)) = 1
              /\ Pending(e)[1].id = textAnimationRafs[e]
              /\ Pending(e)[1].nextText = last[e].text
              /\ Pending(e)[1].reveal = last[e].reveal
        /\ TickedAtOne(e) => ~HasPending(e)
        /\ (Called(e) /\ last[e].hadRaf) =>
              \A i \in 1..Len(Pending(e)) : Pending(e)[i].reveal = -1
C9_SessionCompletes ==
    /\ [](C9_Rearmed)
    /\ \A e \in AnimElems :
          (HasPending(e) /\ Called(e)) ~> (Ticked(e) \/ ~HasPending(e))
    /\ \A e \in AnimElems :
          TickedBelowOne(e) ~> (Called(e) \/ TickedAtOne(e))

\* a session that was re-armed has run its tick at fraction 1
C9_Witness ==
    \E e \in AnimElems :
        TickedAtOne(e) /\ last[e].prevReveal >= 0 /\ ~HasPending(e)

\* C10: an element has an entry in the handle table only while a callback
\* with that handle is pending for it.
C10_TableTracksPending ==
    \A e \in DOMAIN content :
        textAnimationRafs[e] # 0 =>
            \E i \in 1..Len(Pending(e)) :
                Pending(e)[i].id = textAnimationRafs[e]


\* C11: once animateTextScramble has been called on an element and no
\* callback is pending for it, the element's content is the string of the
\* most recent call, as plain text without child elements.  (A tick belongs
\* to the session of the most recent call, so the history's text is that
\* call's string after a call and after a tick.)
C11_LastCallWins ==
    \A e \in DOMAIN content :
        ((Called(e) \/ Ticked(e)) /\ ~HasPending(e))
        => IsPlainText(content[e], last[e].text)


\* C12: with every load succeeding, once the page has started and no
\* setLanguage call is suspended any more, appState.translations is the data
\* of appState.lang, and appState.lang is the stored language.  (Here
\* appState.lang is assigned only where setLanguage starts, so it is the
\* language of the last click that switched.)
C12_SwitchesConverge ==
    (booted /\ loads = EmptyBag)
    => /\ appTranslations = appLang
       /\ storedLang = appLang


\* the call ends at this settling of its fetch, after the load of a language
\* other than "uk" has failed
C13_EndsAfterFailure(call, ok) ==
    \/ call.stage = "fallback"
    \/ call.stage = "load" /\ call.lang # "uk" /\ ~ok /\ "uk" \in i18nCache

\* C13 as stated: when a setLanguage call whose load of a language other than
\* "uk" failed ends, appState.lang and the stored language are "uk" and
\* appState.translations is the "uk" data; a failed load leaves the cache
\* alone; appState.lang is the stored language after any setLanguage call.
C13_OriginalStep ==
    \A call \in BagToSet(loads), ok \in BOOLEAN :
        SettleState(call, ok) =>
            /\ C13_EndsAfterFailure(call, ok) =>
                  /\ appLang' = "uk" /\ storedLang' = "uk"
                  /\ appTranslations' = "uk"
            /\ ~ok => i18nCache' = i18nCache
            /\ appLang' = storedLang'
C13_Original == [][C13_OriginalStep]_vars

\* C13 amended: the failure of the load of a language other than "uk" sets
\* appState.lang and the stored language to "uk" at once; appState.translations
\* becomes the "uk" data at once when it is cached, and otherwise when the
\* fetch of the fallback succeeds; when that fetch fails too, the call ends
\* with appState.translations as it was.  A failed load
\* leaves the cache alone, and appState.lang is the stored language in every
\* state after the first setLanguage call.
C13_Step ==
    \A call \in BagToSet(loads), ok \in BOOLEAN :
        SettleState(call, ok) =>
            /\ ~ok => i18nCache' = i18nCache
            /\ (call.stage = "load" /\ call.lang # "uk" /\ ~ok) =>
                  /\ appLang' = "uk" /\ storedLang' = "uk"
                  /\ IF "uk" \in i18nCache
                     THEN /\ appTranslations' = "uk"
                          /\ \A e \in PageElems :
                                TextContent(content'[e]) = TranslationData("uk")[e]
                                  \/ HasPending(e)'
                     ELSE /\ appTranslations' = appTranslations
                          /\ \E c \in BagToSet(loads') :
                                c.stage = "fallback" /\ c.lang = "uk"
            /\ (call.stage = "fallback" /\ ok) =>
                  /\ appTranslations' = "uk"
                  /\ "uk" \in i18nCache'
            /\ (call.stage = "fallback" /\ ~ok) =>
                  appTranslations' = appTranslations
C13_Amended == [](booted => appLang = storedLang) /\ [][C13_Step]_vars

\* the load of "en" has failed and the fetch of the fallback is under way
C13_Witness ==
    /\ appLang = "uk" /\ storedLang = "uk"
    /\ "en" \notin i18nCache
    /\ \E c \in BagToSet(loads) : c.stage = "fallback" /\ c.lang = "uk"


\* C14: whenever the modal has modal--open it has no modal--closing, its
\* aria-hidden is "false", the body has no-scroll, activeProjectId is set and
\* no close timer is pending; the only timer that can be pending is the one
\* modalCloseTimer names, so a timer armed before an open never fires after
\* it; and modal--visible comes only with modal--open.
C14_OpenIsConsistent ==
    /\ modal.open =>
          /\ ~modal.closing
          /\ modal.ariaHidden = "false"
          /\ modal.noScroll
          /\ modal.activeProjectId \in Projects
          /\ modal.timers = {}
          /\ modal.modalCloseTimer = 0
    /\ modal.timers \subseteq {modal.modalCloseTimer}
    /\ modal.visible => modal.open

\* the modal is open and shown after an open that found the timer of the
\* preceding close still pending
C14_Witness ==
    /\ modal.open /\ modal.visible
    /\ modal.clearedTimer
    /\ modal.timers = {}

=============================================================================
